---- MODULE Spec2Model ----
(***************************************************************************)
(* Model of the Helsinki city-bike feature pipeline.                       *)
(*                                                                         *)
(*   - citybike/data_cleaning.py  handle_wind_speed_gaps                   *)
(*   - scripts/clean_data.py      clean_weather_data (wind-speed part)     *)
(*   - citybike/features.py       _add_lags, _add_rolling_means,           *)
(*                                _same_hour_rolling_mean,                 *)
(*                                _shift_weather_cols, add_features        *)
(*   - scripts/feature_engineering.py  aggregate_hourly_departures, main   *)
(*   - citybike/io_utils.py       load_csv                                 *)
(*   - scripts/fetch_weather_data.py   fetch_fmi_data, main                *)
(*                                                                         *)
(* A pandas cell is a sequence: <<>> is a missing value (NaN), <<v>> holds *)
(* the number v.  Wind speeds are fixed-point integers in units of 1/Unit, *)
(* so that every linear interpolation over a gap of at most MaxGap values  *)
(* is exact.                                                               *)
(***************************************************************************)
EXTENDS Integers, Sequences, FiniteSets, TLC

VARIABLES
    pc,          \* position of the run: "raw" | "cleaned" | "input" | "done"
                 \* | "rides" | "gridded" | "main" | "returned" | "raised"
                 \* | "split" | "train_written" | "written" | "joined"
                 \* | "fetch_main" | "fetch_call" | "fetch_loop"
                 \* | "fetch_returned" | "fetch_done"
    caller,      \* which entry point produced the weather table
    raw,         \* wind_speed column as read from the raw weather file
    wind_speed,  \* df['wind_speed']
    ws_missing,  \* df['ws_missing'] (<<>> while the column does not exist)
    df,          \* the table handed to the stage under study
    cfg,         \* the other arguments of the stage
    out,         \* the table the stage under study returns
    files,       \* the output files of feature_engineering.main
    split,       \* train and val of feature_engineering.main
    inputs,      \* the input files of feature_engineering.main
    fetch        \* the locals of fetch_weather_data: year of main; start,
                 \* end, current, results of fetch_fmi_data

vars == <<pc, caller, raw, wind_speed, ws_missing, df, cfg, out, files,
          split, inputs, fetch>>

----------------------------------------------------------------------------
(* Cells                                                                   *)

Missing == <<>>

Val(v) == <<v>>

IsNa(x) == x = Missing

Num(x) == x[1]

\* 420: divisible by 1..7
Unit == 4 * 3 * 5 * 7

Sentinel == Val((0 - 1) * Unit)

----------------------------------------------------------------------------
(* Bounds                                                                  *)

MaxLen == 9

MaxGap == 6

ObservedSpeeds == {Val(2 * Unit), Val(3 * Unit)}

----------------------------------------------------------------------------
(* citybike/data_cleaning.py : handle_wind_speed_gaps                      *)

\* Series.isna().astype(int)
IsNaFlags(col) == [i \in DOMAIN col |-> IF IsNa(col[i]) THEN 1 ELSE 0]

\* groups = (~is_na.astype(bool)).cumsum()
Groups(col) ==
    [i \in DOMAIN col |-> Cardinality({j \in 1..i : ~IsNa(col[j])})]

\* gap_lengths = is_na.groupby(groups).sum(), read at key grp
GapLength(col, groups, grp) ==
    Cardinality({i \in DOMAIN col : groups[i] = grp /\ IsNa(col[i])})

\* Series.interpolate(method='linear') with pandas' defaults
\* (limit_direction='forward', limit_area=None): a missing value between two
\* valid ones lies on the line through them (positions equally spaced), a
\* missing value after the last valid one repeats it, a missing value before
\* the first valid one stays missing.
Interpolate(sub) ==
    [i \in DOMAIN sub |->
        IF ~IsNa(sub[i]) THEN sub[i]
        ELSE LET before == {j \in 1..(i - 1) : ~IsNa(sub[j])}
                 after  == {j \in (i + 1)..Len(sub) : ~IsNa(sub[j])}
             IN  IF before = {} THEN Missing
                 ELSE LET p == CHOOSE j \in before : \A k \in before : k <= j
                      IN  IF after = {} THEN sub[p]
                          ELSE LET q == CHOOSE j \in after : \A k \in after : j <= k
                               IN  Val(Num(sub[p])
                                       + ((i - p) * (Num(sub[q]) - Num(sub[p])))
                                         \div (q - p))]

\* df['wind_speed'][groups == grp] : the rows of one group, in order
GroupIdx(groups, grp) == {i \in DOMAIN groups : groups[i] = grp}

\* df.loc[idx, 'wind_speed'] = df['wind_speed'].loc[idx].interpolate(...)
InterpolateGroup(col, groups, grp) ==
    LET idx   == GroupIdx(groups, grp)
        first == CHOOSE i \in idx : \A k \in idx : i <= k
        sub   == [n \in 1..Cardinality(idx) |-> col[first + n - 1]]
        fill  == Interpolate(sub)
    IN  [i \in DOMAIN col |-> IF i \in idx THEN fill[i - first + 1] ELSE col[i]]

\* Mutant of IsShortGap: the threshold off by one
IsShortGapOffByOne(length) == length > 0 /\ length <= MaxGap + 1

\* if length > 0 and length <= 6
IsShortGap(length) == length > 0 /\ length <= MaxGap

\* for grp, length in gap_lengths.items(): ...
RECURSIVE InterpolateShortGaps(_, _, _, _, _)
InterpolateShortGaps(col, orig, groups, grp, last) ==
    IF grp > last THEN col
    ELSE LET length == GapLength(orig, groups, grp)
             next   == IF GroupIdx(groups, grp) # {} /\ IsShortGap(length)
                       THEN InterpolateGroup(col, groups, grp)
                       ELSE col
         IN  InterpolateShortGaps(next, orig, groups, grp + 1, last)

\* Mutant of FillNa: the values missing after the short-gap step stay missing
FillNaNone(col) == col

\* Series.fillna(-1)
FillNa(col) == [i \in DOMAIN col |-> IF IsNa(col[i]) THEN Sentinel ELSE col[i]]

\* Mutant of FlagAfterFill: the flag read before the short gaps are filled
FlagBeforeFill(orig, filled) == IsNaFlags(orig)

\* df['ws_missing'] = df['wind_speed'].isna().astype(int), read after the
\* short gaps were filled
FlagAfterFill(orig, filled) == IsNaFlags(filled)

\* the whole function on a table holding the wind_speed column (and, when
\* clean_weather_data called it, a ws_missing column that line 48 overwrites)
HandleWindSpeedGaps(tbl) ==
    LET col    == tbl.wind_speed
        groups == Groups(col)
        last   == IF Len(col) = 0 THEN 0 ELSE groups[Len(col)]
        filled == InterpolateShortGaps(col, col, groups, 0, last)
    IN  [tbl EXCEPT !.ws_missing = FlagAfterFill(col, filled),
                    !.wind_speed = FillNa(filled)]

----------------------------------------------------------------------------
(* Weather cleaning as a state machine                                     *)

Cells == ObservedSpeeds \cup {Missing}

RawSeries == UNION {[1..n -> Cells] : n \in 1..MaxLen}

\* neither output file exists
NoFiles == [train |-> Missing, test |-> Missing]

\* train and val are not assigned
NoSplit == [train |-> <<>>, val |-> <<>>]

\* no input file is read
NoInputs == <<>>

\* fetch_weather_data has not run
NoFetch == <<>>

InitMainIdle ==
    /\ files = NoFiles
    /\ split = NoSplit
    /\ inputs = NoInputs

InitFeaturesIdle ==
    /\ df = <<>>
    /\ cfg = <<>>
    /\ out = <<>>
    /\ InitMainIdle

InitWind ==
    /\ pc = "raw"
    /\ caller = "none"
    /\ fetch = NoFetch
    /\ raw \in RawSeries
    /\ wind_speed = raw
    /\ ws_missing = <<>>
    /\ InitFeaturesIdle

\* scripts/clean_data.py : clean_weather_data, the wind-speed columns:
\* line 108 writes the flag from the raw column, then handle_wind_speed_gaps
\* runs on the same table.
CleanWeatherData ==
    /\ pc = "raw"
    /\ LET flagged == [wind_speed |-> wind_speed,
                       ws_missing |-> IsNaFlags(wind_speed)]
           res     == HandleWindSpeedGaps(flagged)
       IN  /\ wind_speed' = res.wind_speed
           /\ ws_missing' = res.ws_missing
    /\ pc' = "cleaned"
    /\ caller' = "clean_weather_data"
    /\ UNCHANGED <<fetch, raw, df, cfg, out, files, split, inputs>>

\* handle_wind_speed_gaps called directly on a table with a wind_speed column
HandleWindSpeedGapsCall ==
    /\ pc = "raw"
    /\ LET res == HandleWindSpeedGaps([wind_speed |-> wind_speed,
                                       ws_missing |-> ws_missing])
       IN  /\ wind_speed' = res.wind_speed
           /\ ws_missing' = res.ws_missing
    /\ pc' = "cleaned"
    /\ caller' = "handle_wind_speed_gaps"
    /\ UNCHANGED <<fetch, raw, df, cfg, out, files, split, inputs>>

NextWind == CleanWeatherData \/ HandleWindSpeedGapsCall

SpecWind == InitWind /\ [][NextWind]_vars

----------------------------------------------------------------------------
(* Tables of add_features                                                  *)
(*                                                                         *)
(* A table is a sequence of rows; a row is a record.  The input rows carry *)
(* station_id, time (in hours, the index), departures (the target) and     *)
(* precipitation (the weather column).  A statistic cell holds an exact    *)
(* fraction <<numerator, denominator>> in lowest terms; a std cell holds   *)
(* the sample variance, of which the standard deviation is the square root.*)

\* rows of the series under study
MaxRows == 5

HoursPerDay == 24

\* the hours a series may hold: the midnights of four days and the two
\* hours before each
Days == 0..3

HoursBack == {0, 1, 2}

Times == {d * HoursPerDay - b : d \in Days, b \in HoursBack} \cap Nat

TargetVals == {Val(0), Val(1)}

Range(f) == {f[i] : i \in DOMAIN f}

Max(S) == CHOOSE x \in S : \A y \in S : y <= x

RECURSIVE Gcd(_, _)
Gcd(a, b) == IF b = 0 THEN a ELSE Gcd(b, a % b)

\* the fraction n/d (n >= 0, d > 0) in lowest terms
Frac(n, d) == LET g == Gcd(n, d) IN Val(<<n \div g, d \div g>>)

RECURSIVE Sum(_)
Sum(vals) == IF vals = <<>> THEN 0 ELSE Num(Head(vals)) + Sum(Tail(vals))

RECURSIVE SumSq(_)
SumSq(vals) ==
    IF vals = <<>> THEN 0
    ELSE Num(Head(vals)) * Num(Head(vals)) + SumSq(Tail(vals))

\* the non-missing cells of a sequence of cells (skipna=True)
SkipNa(cells) == SelectSeq(cells, LAMBDA c : ~IsNa(c))

\* mean of a sequence of numbers; of no number it is missing
Mean(vals) ==
    IF Len(vals) = 0 THEN Missing ELSE Frac(Sum(vals), Len(vals))

\* Mutant of Std: the deviation of a single value is taken to be 0
StdOfOneIsZero(vals) ==
    LET n == Len(vals)
    IN  IF n = 0 THEN Missing
        ELSE IF n = 1 THEN Frac(0, 1)
        ELSE Frac(n * SumSq(vals) - Sum(vals) * Sum(vals), n * (n - 1))

\* sample standard deviation (ddof=1), held as the variance; of fewer than
\* two numbers it is missing
Std(vals) ==
    LET n == Len(vals)
    IN  IF n < 2 THEN Missing
        ELSE Frac(n * SumSq(vals) - Sum(vals) * Sum(vals), n * (n - 1))

----------------------------------------------------------------------------
(* pandas primitives used by citybike/features.py                          *)

\* DataFrame.sort_index(): the rows in ascending time (insertion sort, stable)
RECURSIVE InsertByTime(_, _)
InsertByTime(sorted, r) ==
    IF sorted = <<>> THEN <<r>>
    ELSE IF r.time < Head(sorted).time THEN <<r>> \o sorted
         ELSE <<Head(sorted)>> \o InsertByTime(Tail(sorted), r)

\* the index is already ascending (Index.is_monotonic_increasing)
IsMonotonic(group) ==
    \A i \in 1..(Len(group) - 1) : group[i].time <= group[i + 1].time

\* Mutant of SortIndex: the group is left in the order it came in
SortIndexNone(group) == group

RECURSIVE SortIndex(_)
SortIndex(group) ==
    IF IsMonotonic(group) THEN group
    ELSE InsertByTime(SortIndex(SubSeq(group, 1, Len(group) - 1)),
                      group[Len(group)])

\* group[column] : a series, one [time, val] per row
Series(group, column) ==
    [i \in DOMAIN group |-> [time |-> group[i].time, val |-> group[i][column]]]

\* Mutant of ShiftFreq: Series.shift(periods) without freq moves the values
\* down by rows and leaves the index alone
ShiftRows(series, periods, freq) ==
    [i \in DOMAIN series |->
        [time |-> series[i].time,
         val  |-> IF i - periods >= 1 THEN series[i - periods].val ELSE Missing]]

\* Series.shift(periods, freq=freq): the index moves by periods*freq, the
\* values stay with their rows
ShiftFreq(series, periods, freq) ==
    [i \in DOMAIN series |->
        [time |-> series[i].time + periods * freq, val |-> series[i].val]]

\* group[name] = series : the assignment aligns on the index; a row whose
\* time is not in the series' index gets a missing value
AtTime(series, t) ==
    LET hit == {i \in DOMAIN series : series[i].time = t}
    IN  IF hit = {} THEN Missing ELSE series[CHOOSE i \in hit : TRUE].val

\* the w cells of the positional window ending at row i
Window(series, i, w) == [n \in 1..w |-> series[i - w + n].val]

\* Series.rolling(window=w).mean(): over the w rows ending at each row
\* (min_periods = w: missing while fewer than w rows, or a missing cell in
\* the window)
RollingMean(series, w) ==
    [i \in DOMAIN series |->
        [time |-> series[i].time,
         val  |-> IF i < w THEN Missing
                  ELSE LET win == Window(series, i, w)
                       IN  IF Len(SkipNa(win)) < w THEN Missing ELSE Mean(win)]]

\* Series.rolling(window=w).std()
RollingStd(series, w) ==
    [i \in DOMAIN series |->
        [time |-> series[i].time,
         val  |-> IF i < w THEN Missing
                  ELSE LET win == Window(series, i, w)
                       IN  IF Len(SkipNa(win)) < w THEN Missing ELSE Std(win)]]

\* the station ids of a table, ascending (groupby sorts its keys)
RECURSIVE Ascending(_)
Ascending(S) ==
    IF S = {} THEN <<>>
    ELSE LET m == CHOOSE x \in S : \A y \in S : x <= y
         IN  <<m>> \o Ascending(S \ {m})

StationIds(tbl) == {tbl[i].station_id : i \in DOMAIN tbl}

GroupOf(tbl, e) == SelectSeq(tbl, LAMBDA r : r.station_id = e)

RECURSIVE Concat(_)
Concat(seqs) == IF seqs = <<>> THEN <<>> ELSE Head(seqs) \o Concat(Tail(seqs))

\* Mutant of GroupBy: the passes run on the whole table as one group
GroupByNone(tbl) == <<tbl>>

\* df.groupby('station_id', group_keys=False, observed=True)[df.columns]:
\* the groups, one per station; .apply(F, ...) runs F on each and puts the
\* results together (Concat)
GroupBy(tbl) ==
    LET ids == Ascending(StationIds(tbl))
    IN  [n \in DOMAIN ids |-> GroupOf(tbl, ids[n])]

----------------------------------------------------------------------------
(* Calendar                                                                *)
(*                                                                         *)
(* A timestamp of the hourly tables is a number of hours, a departure is a *)
(* number of minutes, both counted from 00:00 on 1 January of the year     *)
(* before the cutoff year of the train/test split.                         *)

Cutoff == 2024

EpochYear == Cutoff - 1

MinutesPerHour == 60

SeasonFirst == 4

SeasonLast == 10

IsLeap(y) == y % 4 = 0 /\ (y % 100 # 0 \/ y % 400 = 0)

DaysInMonth(y, m) ==
    IF m = 2 THEN (IF IsLeap(y) THEN 29 ELSE 28)
    ELSE IF m \in {4, 6, 9, 11} THEN 30 ELSE 31

\* the year and month the h-th hour counted from the 1st of month m of
\* year y falls in
RECURSIVE DateFrom(_, _, _)
DateFrom(y, m, h) ==
    LET len == DaysInMonth(y, m) * HoursPerDay
    IN  IF h < len THEN [year |-> y, month |-> m]
        ELSE IF m = 12 THEN DateFrom(y + 1, 1, h - len)
             ELSE DateFrom(y, m + 1, h - len)

\* DatetimeIndex.year
Year(t) == DateFrom(EpochYear, 1, t).year

\* DatetimeIndex.month
Month(t) == DateFrom(EpochYear, 1, t).month

\* days from the epoch to the 1st of month m of year y
RECURSIVE DaysUntil(_, _)
DaysUntil(y, m) ==
    IF y = EpochYear /\ m = 1 THEN 0
    ELSE IF m = 1 THEN DaysUntil(y - 1, 12) + DaysInMonth(y - 1, 12)
         ELSE DaysUntil(y, m - 1) + DaysInMonth(y, m - 1)

\* parse_dates: the timestamp y-m-d hh:mm, in minutes
ToDatetime(y, m, d, hh, mm) ==
    ((DaysUntil(y, m) + d - 1) * HoursPerDay + hh) * MinutesPerHour + mm

\* Series.dt.floor('h'): the hour a timestamp in minutes falls in
FloorHour(ts) == ts \div MinutesPerHour

\* DatetimeIndex.hour
Hour(t) == t % HoursPerDay

\* weekday of 1 January of year y, Monday = 0 (1 January of year 1 is a
\* Monday)
NewYearWeekday(y) ==
    (365 * (y - 1) + (y - 1) \div 4 - (y - 1) \div 100 + (y - 1) \div 400) % 7

\* DatetimeIndex.weekday
Weekday(t) == (NewYearWeekday(EpochYear) + t \div HoursPerDay) % 7

----------------------------------------------------------------------------
(* citybike/features.py                                                    *)

\* Mutant of AddLags: the lag is taken k rows back, not k periods back
AddLagsByRows(group, column, freq, lags) ==
    LET g       == SortIndex(group)
        s       == Series(g, column)
        shifted == [k \in Range(lags) |-> ShiftRows(s, k, freq)]
    IN  [i \in DOMAIN g |->
            [lag |-> [k \in Range(lags) |-> AtTime(shifted[k], g[i].time)]]
            @@ g[i]]

\* _add_lags
AddLags(group, column, freq, lags) ==
    LET g       == SortIndex(group)
        s       == Series(g, column)
        \* group[column].shift(lag, freq=freq), one series per lag
        shifted == [k \in Range(lags) |-> ShiftFreq(s, k, freq)]
    IN  [i \in DOMAIN g |->
            [lag |-> [k \in Range(lags) |-> AtTime(shifted[k], g[i].time)]]
            @@ g[i]]

\* Mutant of AddRollingMeans: the window is taken on the unshifted target,
\* so it ends on the row itself
AddRollingMeansNoShift(group, column, freq, windows) ==
    LET g    == SortIndex(group)
        s    == Series(g, column)
        mean == [w \in Range(windows) |-> RollingMean(s, w)]
        std  == [w \in Range(windows) |-> RollingStd(s, w)]
    IN  [i \in DOMAIN g |->
            [roll_mean |-> [w \in Range(windows) |-> AtTime(mean[w], g[i].time)],
             roll_std  |-> [w \in Range(windows) |-> AtTime(std[w], g[i].time)]]
            @@ g[i]]

\* _add_rolling_means
AddRollingMeans(group, column, freq, windows) ==
    LET g       == SortIndex(group)
        shifted == ShiftFreq(Series(g, column), 1, freq)
        mean    == [w \in Range(windows) |-> RollingMean(shifted, w)]
        std     == [w \in Range(windows) |-> RollingStd(shifted, w)]
    IN  [i \in DOMAIN g |->
            [roll_mean |-> [w \in Range(windows) |-> AtTime(mean[w], g[i].time)],
             roll_std  |-> [w \in Range(windows) |-> AtTime(std[w], g[i].time)]]
            @@ g[i]]

\* Mutant of RowMean: the mean is missing unless every column holds a value
RowMeanOfAll(cells) ==
    IF \E i \in DOMAIN cells : IsNa(cells[i]) THEN Missing ELSE Mean(cells)

\* dummy_group[window_cols].mean(axis=1): over the columns that hold a value
RowMean(cells) == Mean(SkipNa(cells))

\* dummy_group[window_cols].std(axis=1)
RowStd(cells) == Std(SkipNa(cells))

\* _same_hour_rolling_mean
SameHourRollingMean(group, column, freq, windows) ==
    LET g     == SortIndex(group)
        s     == Series(g, column)
        \* dummy_cols: the value i days earlier, i = 1..max(windows)
        dummy == [i \in 1..Max(Range(windows)) |->
                    ShiftFreq(s, i * HoursPerDay, freq)]
    IN  [r \in DOMAIN g |->
            LET cols == [i \in DOMAIN dummy |-> AtTime(dummy[i], g[r].time)]
            IN  [same_hour_mean |-> [d \in Range(windows) |->
                                        RowMean(SubSeq(cols, 1, d))],
                 same_hour_std  |-> [d \in Range(windows) |->
                                        RowStd(SubSeq(cols, 1, d))]]
                @@ g[r]]

\* Mutant of ShiftWeatherCols: the weather columns are left as read
ShiftWeatherColsNoShift(group, weather_cols, freq) == SortIndex(group)

\* Mutant of ShiftWeatherCols: the flag columns are left as read, only the
\* readings are shifted
ShiftWeatherValues(group, weather_cols, freq) ==
    LET g       == SortIndex(group)
        values  == Range(weather_cols) \ {"precip_missing", "ws_missing"}
        shifted == [col \in values |-> ShiftFreq(Series(g, col), 1, freq)]
    IN  [i \in DOMAIN g |->
            [col \in DOMAIN g[i] |->
                IF col \in values
                THEN AtTime(shifted[col], g[i].time)
                ELSE g[i][col]]]

\* _shift_weather_cols: every column of weather_cols is replaced by its
\* values one period earlier
ShiftWeatherCols(group, weather_cols, freq) ==
    LET g       == SortIndex(group)
        shifted == [col \in Range(weather_cols) |->
                      ShiftFreq(Series(g, col), 1, freq)]
    IN  [i \in DOMAIN g |->
            [col \in DOMAIN g[i] |->
                IF col \in Range(weather_cols)
                THEN AtTime(shifted[col], g[i].time)
                ELSE g[i][col]]]

\* Mutant of Rain: every reading other than 0 counts as rain
RainNonZero(r) ==
    IF ~IsNa(r.precipitation) /\ Num(r.precipitation) # 0 THEN 1 ELSE 0

\* df['rain'] = (df['precipitation'] > 0).astype(int)
Rain(r) ==
    IF ~IsNa(r.precipitation) /\ Num(r.precipitation) > 0 THEN 1 ELSE 0

\* the columns that hold plain numbers, and those that hold one cell per
\* lag or window; every other column holds a cell
PlainCols == {"station_id", "time", "rain", "hour", "weekday", "month",
              "is_weekend", "year"}

NestedCols == {"lag", "roll_mean", "roll_std", "same_hour_mean",
               "same_hour_std"}

\* Mutant of HasNa: only the target and the engineered columns count
HasNaEngineered(r) ==
    \/ IsNa(r.departures)
    \/ \E col \in DOMAIN r \cap NestedCols :
          \E k \in DOMAIN r[col] : IsNa(r[col][k])

\* a row holds a missing value in some column
HasNa(r) ==
    \/ \E col \in DOMAIN r \ (PlainCols \cup NestedCols) : IsNa(r[col])
    \/ \E col \in DOMAIN r \cap NestedCols :
          \E k \in DOMAIN r[col] : IsNa(r[col][k])

\* df.dropna()
DropNa(tbl) == SelectSeq(tbl, LAMBDA r : ~HasNa(r))

\* df.sort_values(by=['time', 'station_id'])
RECURSIVE InsertByTimeStation(_, _)
InsertByTimeStation(sorted, r) ==
    IF sorted = <<>> THEN <<r>>
    ELSE IF \/ r.time < Head(sorted).time
            \/ r.time = Head(sorted).time /\ r.station_id < Head(sorted).station_id
         THEN <<r>> \o sorted
         ELSE <<Head(sorted)>> \o InsertByTimeStation(Tail(sorted), r)

\* Mutant of SortValues: the rows are left station by station
SortValuesNone(tbl) == tbl

RECURSIVE SortValues(_)
SortValues(tbl) ==
    IF tbl = <<>> THEN <<>>
    ELSE InsertByTimeStation(SortValues(SubSeq(tbl, 1, Len(tbl) - 1)),
                             tbl[Len(tbl)])

\* df['hour'] = df.index.hour ... df['year'] = df.index.year
CalendarCols(t) ==
    [hour       |-> Hour(t),
     weekday    |-> Weekday(t),
     month      |-> Month(t),
     is_weekend |-> IF Weekday(t) \in {5, 6} THEN 1 ELSE 0,
     year       |-> Year(t)]

\* add_features up to and including the rain column: every engineered
\* column on every input row, before rows are dropped
Engineered(tbl, c) ==
    LET g1      == GroupBy(tbl)
        lagged  == Concat([n \in DOMAIN g1 |->
                     AddLags(g1[n], "departures", c.freq, c.lags)])
        g2      == GroupBy(lagged)
        rolled  == Concat([n \in DOMAIN g2 |->
                     AddRollingMeans(g2[n], "departures", c.freq,
                                     c.rolling_windows)])
        g3      == GroupBy(rolled)
        hourly  == Concat([n \in DOMAIN g3 |->
                     SameHourRollingMean(g3[n], "departures", c.freq,
                                         c.same_hour_windows)])
        g4      == GroupBy(hourly)
        shifted == Concat([n \in DOMAIN g4 |->
                     ShiftWeatherCols(g4[n], c.weather_cols, c.freq)])
    IN  [i \in DOMAIN shifted |->
            [rain |-> Rain(shifted[i])]
            @@ CalendarCols(shifted[i].time)
            @@ shifted[i]]

\* the columns add_features reads are in the table: the time index,
\* station_id, the target, the weather columns and precipitation
HasColumns(tbl, c) ==
    \A i \in DOMAIN tbl :
        {"time", "station_id", "departures", "precipitation"}
            \cup Range(c.weather_cols) \subseteq DOMAIN tbl[i]

\* add_features
AddFeatures(tbl, c) == SortValues(DropNa(Engineered(tbl, c)))

----------------------------------------------------------------------------
(* Feature engineering as a state machine                                  *)

\* the two stations of the table: station 1 holds the series under study,
\* station 2 a series of its own on some of the same hours
Station == 1

OtherStation == 2

OtherTarget == Val(5)

OtherTimes ==
    {0, HoursPerDay, 2 * HoursPerDay - 2, 2 * HoursPerDay - 1, 2 * HoursPerDay}

\* precipitation.fillna(-1): the value a missing reading is replaced by
PrecipSentinel == Val(0 - 1)

\* weather_df, joined on time: the cleaned precipitation reading of each
\* hour, which is the sentinel, no rain, or rain
WeatherTables ==
    LET reading(n) == IF n = 0 THEN PrecipSentinel ELSE Val(n - 1)
    IN  {[t \in Times |-> reading((t + s) % 3)] : s \in {0, 1}}

\* the keyword arguments add_features is called with
Configs ==
    {[lags |-> <<1, 2>>, rolling_windows |-> <<2>>,
      same_hour_windows |-> <<2>>,
      weather_cols |-> <<"precipitation">>, freq |-> 1],
     [lags |-> <<1>>, rolling_windows |-> <<2>>,
      same_hour_windows |-> <<2, 3>>,
      weather_cols |-> <<"precipitation">>, freq |-> 1]}

Row(e, t, target, weather) ==
    [station_id |-> e, time |-> t, departures |-> target,
     precipitation |-> weather[t]]

\* the hourly table of feature_engineering.main: station-major, hours
\* ascending, the weather joined on time
MakeTable(index, target, weather) ==
    LET hours == Ascending(index)
        all   == Ascending(OtherTimes)
    IN  [i \in DOMAIN hours |->
            Row(Station, hours[i], target[hours[i]], weather)]
        \o [i \in DOMAIN all |-> Row(OtherStation, all[i], OtherTarget, weather)]

InitWindIdle ==
    /\ caller = "none"
    /\ fetch = NoFetch
    /\ raw = <<>>
    /\ wind_speed = <<>>
    /\ ws_missing = <<>>

InitFeat ==
    /\ pc = "input"
    /\ InitWindIdle
    /\ cfg \in Configs
    /\ \E index \in SUBSET Times :
          /\ Cardinality(index) <= MaxRows
          /\ \E target \in [index -> TargetVals] :
                \E weather \in WeatherTables :
                    df = MakeTable(index, target, weather)
    /\ out = <<>>
    /\ InitMainIdle

\* add_features(df, target_col='departures', ...)
AddFeaturesCall ==
    /\ pc = "input"
    /\ HasColumns(df, cfg)
    /\ out' = AddFeatures(df, cfg)
    /\ pc' = "done"
    /\ UNCHANGED <<fetch, caller, raw, wind_speed, ws_missing, df, cfg, files, split,
                   inputs>>

\* the same table with one target value of station 1 revised, at or after
\* the hour of a row the output holds, and add_features run again on it
ReviseTarget ==
    /\ pc = "done"
    /\ \E i \in DOMAIN df :
          \E v \in TargetVals :
              /\ df[i].station_id = Station
              /\ df[i].departures # v
              /\ \E n \in DOMAIN out :
                    /\ out[n].station_id = Station
                    /\ out[n].time <= df[i].time
              /\ df' = [df EXCEPT ![i].departures = v]
              /\ out' = AddFeatures(df', cfg)
    /\ UNCHANGED <<fetch, pc, caller, raw, wind_speed, ws_missing, cfg, files, split,
                   inputs>>

NextFeat == AddFeaturesCall \/ ReviseTarget

SpecFeat == InitFeat /\ [][NextFeat]_vars

----------------------------------------------------------------------------
(* add_features on a table whose other station changes                     *)

\* the hours of station 1
IsoIndexes ==
    {{0, HoursPerDay, 2 * HoursPerDay - 2, 2 * HoursPerDay - 1, 2 * HoursPerDay},
     {0, HoursPerDay - 1, HoursPerDay, 2 * HoursPerDay - 2, 2 * HoursPerDay - 1,
      2 * HoursPerDay},
     {HoursPerDay, 2 * HoursPerDay, 3 * HoursPerDay - 2, 3 * HoursPerDay - 1,
      3 * HoursPerDay},
     {0, HoursPerDay, 2 * HoursPerDay - 1, 2 * HoursPerDay, 3 * HoursPerDay - 1,
      3 * HoursPerDay}}

\* the targets station 2 may hold
OtherTargets == {OtherTarget, Val(Num(OtherTarget) + 1)}

IsoWeather == CHOOSE weather \in WeatherTables : weather[0] = Val(0)

InitIso ==
    /\ pc = "input"
    /\ InitWindIdle
    /\ InitMainIdle
    /\ cfg \in Configs
    /\ \E index \in IsoIndexes :
          df = MakeTable(index, [t \in index |-> Val(t % 2)], IsoWeather)
    /\ out = <<>>

\* the table with the rows of station e replaced by rows
WithGroup(tbl, e, rows) == SelectSeq(tbl, LAMBDA r : r.station_id # e) \o rows

\* a target of the other station revised, and add_features run again
ReviseOther ==
    /\ pc = "done"
    /\ \E i \in DOMAIN df :
          \E v \in OtherTargets :
              /\ df[i].station_id = OtherStation
              /\ df[i].departures # v
              /\ df' = [df EXCEPT ![i].departures = v]
    /\ out' = AddFeatures(df', cfg)
    /\ UNCHANGED <<fetch, pc, caller, raw, wind_speed, ws_missing, cfg, files, split,
                   inputs>>

\* a row of the other station added, and add_features run again
AddOther ==
    /\ pc = "done"
    /\ \E t \in OtherTimes :
          \E v \in OtherTargets :
              /\ \A i \in DOMAIN df :
                    df[i].station_id = OtherStation => df[i].time # t
              /\ df' = WithGroup(df, OtherStation,
                           InsertByTime(GroupOf(df, OtherStation),
                                        Row(OtherStation, t, v, IsoWeather)))
    /\ out' = AddFeatures(df', cfg)
    /\ UNCHANGED <<fetch, pc, caller, raw, wind_speed, ws_missing, cfg, files, split,
                   inputs>>

\* a row of the other station removed, and add_features run again
RemoveOther ==
    /\ pc = "done"
    /\ \E i \in DOMAIN df :
          /\ df[i].station_id = OtherStation
          /\ df' = SelectSeq(df, LAMBDA r : r # df[i])
    /\ out' = AddFeatures(df', cfg)
    /\ UNCHANGED <<fetch, pc, caller, raw, wind_speed, ws_missing, cfg, files, split,
                   inputs>>

NextIso == AddFeaturesCall \/ ReviseOther \/ AddOther \/ RemoveOther

SpecIso == InitIso /\ [][NextIso]_vars

----------------------------------------------------------------------------
(* add_features with a window of one                                       *)

\* keyword arguments whose rolling or same-hour windows contain 1
StdConfigs ==
    {[lags |-> <<1>>, rolling_windows |-> <<1, 2>>,
      same_hour_windows |-> <<2>>,
      weather_cols |-> <<"precipitation">>, freq |-> 1],
     [lags |-> <<1>>, rolling_windows |-> <<2>>,
      same_hour_windows |-> <<1, 2>>,
      weather_cols |-> <<"precipitation">>, freq |-> 1]}

InitStd ==
    /\ pc = "input"
    /\ InitWindIdle
    /\ InitMainIdle
    /\ cfg \in StdConfigs
    /\ \E index \in IsoIndexes :
          \E target \in [index -> TargetVals] :
              \E weather \in WeatherTables :
                  df = MakeTable(index, target, weather)
    /\ out = <<>>

NextStd == AddFeaturesCall

SpecStd == InitStd /\ [][NextStd]_vars

----------------------------------------------------------------------------
(* scripts/feature_engineering.py : aggregate_hourly_departures            *)
(*                                                                         *)
(* A ride is a record with departure_id, departure (minutes),              *)
(* departure_lat, departure_lon and departure_capacity.                    *)

Min(S) == CHOOSE x \in S : \A y \in S : x <= y

DepartureIds(bike_df) == {bike_df[i].departure_id : i \in DOMAIN bike_df}

Usage(bike_df, s) ==
    Cardinality({i \in DOMAIN bike_df : bike_df[i].departure_id = s})

\* bike_df['departure_id'].value_counts(): the station ids by descending
\* number of rides.  The order of stations with equal counts is whatever
\* the sort leaves: every order is an outcome.
ValueCounts(bike_df) ==
    LET ids == DepartureIds(bike_df)
        n   == Cardinality(ids)
    IN  {s \in [1..n -> ids] :
            /\ \A i, j \in 1..n : i # j => s[i] # s[j]
            /\ \A i \in 1..(n - 1) :
                  Usage(bike_df, s[i]) >= Usage(bike_df, s[i + 1])}

\* station_usage.head(num_stations).index
TopStations(station_usage, num_stations) ==
    SubSeq(station_usage, 1, Min({num_stations, Len(station_usage)}))

\* bike_df['time'] = bike_df['departure'].dt.floor('h'): the column is
\* written into the table the caller passed
WithTime(bike_df) ==
    [i \in DOMAIN bike_df |->
        [time |-> FloorHour(bike_df[i].departure)] @@ bike_df[i]]

\* pd.date_range(min, max, freq='h') restricted to the months April..October
SeasonHours(bike_df) ==
    LET rides == WithTime(bike_df)
        hours == {rides[i].time : i \in DOMAIN rides}
    IN  Ascending({h \in Min(hours)..Max(hours) :
                      Month(h) >= SeasonFirst /\ Month(h) <= SeasonLast})

\* sample_bike_df.groupby(['time', 'departure_id']).size() reindexed on the
\* full index with fill_value=0: the rides of station s in hour h
Departures(bike_df, s, h) ==
    LET rides == WithTime(bike_df)
    IN  Cardinality({i \in DOMAIN rides :
                        rides[i].departure_id = s /\ rides[i].time = h})

\* pd.MultiIndex.from_product([top_stations, season_hours]): station-major
FullIndex(top_stations, season_hours) ==
    Concat([n \in DOMAIN top_stations |->
              [k \in DOMAIN season_hours |->
                  [station_id |-> top_stations[n], time |-> season_hours[k]]]])

\* DataFrame.drop_duplicates(): the first of each set of equal rows
RECURSIVE DropDuplicates(_)
DropDuplicates(tbl) ==
    IF tbl = <<>> THEN <<>>
    ELSE LET front == DropDuplicates(SubSeq(tbl, 1, Len(tbl) - 1))
             last  == tbl[Len(tbl)]
         IN  IF last \in Range(front) THEN front ELSE Append(front, last)

\* bike_df[['departure_id', 'departure_lat', 'departure_lon',
\*          'departure_capacity']].drop_duplicates()
StationCoords(bike_df) ==
    DropDuplicates([i \in DOMAIN bike_df |->
        [departure_id       |-> bike_df[i].departure_id,
         departure_lat      |-> bike_df[i].departure_lat,
         departure_lon      |-> bike_df[i].departure_lon,
         departure_capacity |-> bike_df[i].departure_capacity]])

\* bike_df_hourly.merge(station_coords, left_on='station_id',
\*                      right_on='departure_id', how='left'), departure_id
\* dropped: one row per matching row of station_coords, in the order of the
\* left table
MergeCoords(hourly, station_coords) ==
    Concat([i \in DOMAIN hourly |->
        LET hit == SelectSeq(station_coords,
                       LAMBDA c : c.departure_id = hourly[i].station_id)
        IN  IF hit = <<>>
            THEN <<[departure_lat |-> Missing, departure_lon |-> Missing,
                    departure_capacity |-> Missing] @@ hourly[i]>>
            ELSE [k \in DOMAIN hit |->
                    [departure_lat      |-> Val(hit[k].departure_lat),
                     departure_lon      |-> Val(hit[k].departure_lon),
                     departure_capacity |-> Val(hit[k].departure_capacity)]
                    @@ hourly[i]]])

\* aggregate_hourly_departures, given the outcome of value_counts()
AggregateHourlyDepartures(bike_df, num_stations, station_usage) ==
    LET top_stations == TopStations(station_usage, num_stations)
        season_hours == SeasonHours(bike_df)
        full_index   == FullIndex(top_stations, season_hours)
        hourly       == [i \in DOMAIN full_index |->
                           [departures |->
                               Val(Departures(bike_df, full_index[i].station_id,
                                              full_index[i].time))]
                           @@ full_index[i]]
    IN  MergeCoords(hourly, StationCoords(bike_df))

----------------------------------------------------------------------------
(* scripts/feature_engineering.py : main, the join with the weather        *)
(*                                                                         *)
(* A row of the weather file holds time, precipitation, precip_missing,    *)
(* wind_speed and ws_missing, each a cell.                                 *)

\* the columns of the cleaned weather file
WeatherCols == {"precipitation", "precip_missing", "wind_speed", "ws_missing"}

\* clean_weather_data on the rows of the raw weather file: the flag of a
\* missing precipitation and its sentinel, then the wind-speed columns
CleanWeatherTable(rawtbl) ==
    LET speeds == [i \in DOMAIN rawtbl |-> rawtbl[i].wind_speed]
        wind   == HandleWindSpeedGaps([wind_speed |-> speeds,
                                       ws_missing |-> IsNaFlags(speeds)])
    IN  [i \in DOMAIN rawtbl |->
            [time           |-> rawtbl[i].time,
             precip_missing |-> Val(IF IsNa(rawtbl[i].precipitation)
                                    THEN 1 ELSE 0),
             precipitation  |-> IF IsNa(rawtbl[i].precipitation)
                                THEN PrecipSentinel
                                ELSE rawtbl[i].precipitation,
             wind_speed     |-> wind.wind_speed[i],
             ws_missing     |-> Val(wind.ws_missing[i])]]

\* bike_df_hourly.merge(weather_df, left_on='time', right_index=True,
\*                      how='left'): one row per weather row of the same
\* time, in the order of the left table; missing values where there is none
MergeWeather(hourly, weather_df) ==
    Concat([i \in DOMAIN hourly |->
        LET hit == SelectSeq(weather_df, LAMBDA w : w.time = hourly[i].time)
        IN  IF hit = <<>>
            THEN <<[col \in WeatherCols |-> Missing] @@ hourly[i]>>
            ELSE [k \in DOMAIN hit |->
                    [col \in WeatherCols |-> hit[k][col]] @@ hourly[i]]])

\* rename(columns={'departure_lat': 'lat', 'departure_lon': 'lon',
\*                 'departure_capacity': 'capacity'})
Rename(tbl) ==
    [i \in DOMAIN tbl |->
        [lat |-> tbl[i].departure_lat, lon |-> tbl[i].departure_lon,
         capacity |-> tbl[i].departure_capacity]
        @@ [col \in DOMAIN tbl[i] \ {"departure_lat", "departure_lon",
                                     "departure_capacity"} |-> tbl[i][col]]]

\* Mutant of DropDuplicatesOn: every row is kept
DropDuplicatesNone(tbl) == tbl

\* drop_duplicates(subset=['station_id', 'time']): the first row of each pair
DropDuplicatesOn(tbl) ==
    LET first(i) == \A j \in 1..(i - 1) :
                        \/ tbl[j].station_id # tbl[i].station_id
                        \/ tbl[j].time # tbl[i].time
        kept == {i \in DOMAIN tbl : first(i)}
        order == Ascending(kept)
    IN  [n \in DOMAIN order |-> tbl[order[n]]]

\* main, lines 79-87: the hourly table joined with the weather
JoinWeather(hourly, weather_df) ==
    DropDuplicatesOn(Rename(MergeWeather(hourly, weather_df)))

----------------------------------------------------------------------------
(* The grid builder as a state machine                                     *)

\* rides of the ride table
MaxRides == 3

NumStations == {1, 2}

\* departures around the end of October of the epoch year: two in one hour,
\* one in the last hour of the season, one in November
RideTimes ==
    {ToDatetime(EpochYear, SeasonLast, 31, 22, 10),
     ToDatetime(EpochYear, SeasonLast, 31, 22, 40),
     ToDatetime(EpochYear, SeasonLast, 31, 23, 50),
     ToDatetime(EpochYear, SeasonLast + 1, 1, 1, 20)}

\* the capacities station s is recorded with
Capacities(s) == IF s = Station THEN {10, 20} ELSE {30}

Rides ==
    {[departure_id |-> s, departure |-> t, departure_lat |-> 60,
      departure_lon |-> 24 + s, departure_capacity |-> c] :
        s \in {Station, OtherStation}, t \in RideTimes, c \in {10, 20, 30}}

\* the weather file around the end of October: one row for each of the two
\* last hours of the season, or two rows with different readings for the
\* first of them and none for the second
GridWeathers ==
    LET h == FloorHour(ToDatetime(EpochYear, SeasonLast, 31, 22, 0))
        reading(t, p, w) ==
            [time |-> t, precipitation |-> p, wind_speed |-> w]
    IN  {CleanWeatherTable(<<reading(h, Val(0), Val(2 * Unit)),
                             reading(h + 1, Val(1), Val(3 * Unit))>>),
         CleanWeatherTable(<<reading(h, Val(1), Val(3 * Unit)),
                             reading(h, Missing, Val(2 * Unit))>>)}

InitGrid ==
    /\ pc = "rides"
    /\ InitWindIdle
    /\ \E n \in 1..MaxRides :
          /\ df \in [1..n -> Rides]
          /\ \A i \in 1..n :
                df[i].departure_capacity \in Capacities(df[i].departure_id)
    /\ cfg \in {[num_stations |-> n, weather_df |-> w] :
                   n \in NumStations, w \in GridWeathers}
    /\ out = <<>>
    /\ InitMainIdle

\* bike_df_hourly = aggregate_hourly_departures(bike_df, num_stations)
AggregateCall ==
    /\ pc = "rides"
    /\ \E station_usage \in ValueCounts(df) :
          out' = AggregateHourlyDepartures(df, cfg.num_stations, station_usage)
    /\ df' = WithTime(df)
    /\ pc' = "gridded"
    /\ UNCHANGED <<fetch, caller, raw, wind_speed, ws_missing, cfg, files, split,
                   inputs>>

\* main, lines 79-87: bike_df_hourly is joined with the weather, renamed,
\* freed of duplicate (station_id, time) rows and indexed by time
JoinWeatherCall ==
    /\ pc = "gridded"
    /\ out' = JoinWeather(out, cfg.weather_df)
    /\ pc' = "joined"
    /\ UNCHANGED <<caller, raw, wind_speed, ws_missing, df, cfg, files, split,
                   inputs, fetch>>

NextGrid == AggregateCall \/ JoinWeatherCall

SpecGrid == InitGrid /\ [][NextGrid]_vars

----------------------------------------------------------------------------
(* scripts/feature_engineering.py : main                                   *)

\* DataFrame.drop(columns=[col])
DropColumn(tbl, col) ==
    [i \in DOMAIN tbl |-> [f \in DOMAIN tbl[i] \ {col} |-> tbl[i][f]]]

\* a table with its RangeIndex: the rows a mask picks keep their labels
Frame(features) ==
    [n \in DOMAIN features |-> [index |-> n - 1, row |-> features[n]]]

\* Mutant of SplitVal: every row goes to the evaluation subset
SplitValAll(features) == Frame(features)

\* val = features[features["year"] == 2024]
SplitVal(features) ==
    SelectSeq(Frame(features), LAMBDA x : x.row.year = Cutoff)

\* train = features[features["year"] < 2024]
SplitTrain(features) ==
    SelectSeq(Frame(features), LAMBDA x : x.row.year < Cutoff)

\* DataFrame.to_csv(path, index=False): the rows without the index
ToCsv(frame) == Val([k \in DOMAIN frame |-> frame[k].row])

\* Mutant of Loadable: only the ride file is loaded inside the try block
LoadableRides(inp) == inp.bike = "ok"

\* both load_csv calls return
Loadable(inp) == inp.bike = "ok" /\ inp.weather = "ok"

----------------------------------------------------------------------------
(* main as a state machine                                                 *)

\* the keyword arguments main passes to add_features, with short lookbacks
MainConfig ==
    [lags |-> <<1>>, rolling_windows |-> <<2>>, same_hour_windows |-> <<2>>,
     weather_cols |-> <<"precipitation">>, freq |-> 1]

\* the longest lookback of MainConfig, in hours
Lookback == 2 * HoursPerDay

\* first and last hour of the season of year y
SeasonStart(y) == FloorHour(ToDatetime(y, SeasonFirst, 1, 0, 0))

SeasonEnd(y) == FloorHour(ToDatetime(y, SeasonLast, 31, 23, 0))

\* the earliest and latest ride hour of the ride file: the end of one
\* season, the start of one, or the end of one to the start of the next
DataRanges ==
    LET years == {Cutoff - 1, Cutoff, Cutoff + 1}
    IN  {<<SeasonEnd(y) - Lookback - 1, SeasonEnd(y)>> :
            y \in years \ {Cutoff + 1}}
        \cup {<<SeasonStart(y), SeasonStart(y) + Lookback + 1>> :
                y \in years \ {Cutoff - 1}}
        \cup {<<SeasonEnd(y) - Lookback - 1, SeasonStart(y + 1) + Lookback + 1>> :
                y \in years \ {Cutoff + 1}}

\* the table of lines 76-87: every station on every season hour of the data
\* range, the weather joined on time
MainTable(range, stations) ==
    LET hours == Ascending({h \in range[1]..range[2] :
                              Month(h) >= SeasonFirst /\ Month(h) <= SeasonLast})
        ids   == Ascending(stations)
    IN  Concat([n \in DOMAIN ids |->
                  [k \in DOMAIN hours |->
                      [station_id    |-> ids[n],
                       time          |-> hours[k],
                       departures    |-> Val((hours[k] + ids[n]) % 3),
                       precipitation |-> Val(hours[k] % 2)]]])

\* the columns an input file may lack
Lacking == {"none", "time", "departures", "precipitation"}

MainTables ==
    {DropColumn(MainTable(range, stations), col) :
        range \in DataRanges,
        stations \in {{Station}, {Station, OtherStation}},
        col \in Lacking}

FileStates == {"ok", "unreadable"}

\* the output files of an earlier run
OldFiles == [train |-> Val(<<>>), test |-> Val(<<>>)]

InitMain ==
    /\ pc = "main"
    /\ InitWindIdle
    /\ inputs \in [bike : FileStates, weather : FileStates, table : MainTables]
    /\ df = <<>>
    /\ cfg = MainConfig
    /\ out = <<>>
    /\ split = NoSplit
    /\ files \in {NoFiles, OldFiles}

\* lines 69-87: load both files, return if one cannot be loaded, else build
\* the hourly table
LoadInputs ==
    /\ pc = "main"
    /\ IF Loadable(inputs)
       THEN pc' = "input" /\ df' = inputs.table
       ELSE pc' = "returned" /\ df' = df
    /\ UNCHANGED <<fetch, caller, raw, wind_speed, ws_missing, cfg, out, files, split,
                   inputs>>

\* add_features raises KeyError on a table that lacks a column it reads
AddFeaturesRaises ==
    /\ pc = "input"
    /\ ~HasColumns(df, cfg)
    /\ pc' = "raised"
    /\ UNCHANGED <<fetch, caller, raw, wind_speed, ws_missing, df, cfg, out, files,
                   split, inputs>>

\* lines 100-104: drop the time column of features in place, then split
Split ==
    /\ pc = "done"
    /\ out' = DropColumn(out, "time")
    /\ split' = [train |-> SplitTrain(out'), val |-> SplitVal(out')]
    /\ pc' = "split"
    /\ UNCHANGED <<fetch, caller, raw, wind_speed, ws_missing, df, cfg, files, inputs>>

\* train.to_csv(output_train, index=False)
WriteTrain ==
    /\ pc = "split"
    /\ files' = [files EXCEPT !.train = ToCsv(split.train)]
    /\ pc' = "train_written"
    /\ UNCHANGED <<fetch, caller, raw, wind_speed, ws_missing, df, cfg, out, split,
                   inputs>>

\* val.to_csv(output_test, index=False)
WriteTest ==
    /\ pc = "train_written"
    /\ files' = [files EXCEPT !.test = ToCsv(split.val)]
    /\ pc' = "written"
    /\ UNCHANGED <<fetch, caller, raw, wind_speed, ws_missing, df, cfg, out, split,
                   inputs>>

NextMain ==
    \/ LoadInputs
    \/ AddFeaturesCall
    \/ AddFeaturesRaises
    \/ Split
    \/ WriteTrain
    \/ WriteTest

SpecMain == InitMain /\ [][NextMain]_vars

----------------------------------------------------------------------------
(* add_features on a table whose rows come in any order                    *)

\* the hours each of the two stations holds: lookback for the last of them
PermTimes == {0, HoursPerDay, 2 * HoursPerDay - 1, 2 * HoursPerDay}

\* the rows of the table: both stations on PermTimes
PermRows ==
    {Row(e, t, Val((t + e) % 3), IsoWeather) :
        e \in {Station, OtherStation}, t \in PermTimes}

\* all orders of a set of rows
RECURSIVE Orders(_)
Orders(S) ==
    IF S = {} THEN {<<>>}
    ELSE UNION {{<<r>> \o rest : rest \in Orders(S \ {r})} : r \in S}

InitPerm ==
    /\ pc = "input"
    /\ InitWindIdle
    /\ InitMainIdle
    /\ cfg = MainConfig
    /\ df \in Orders(PermRows)
    /\ out = <<>>

NextPerm == AddFeaturesCall

SpecPerm == InitPerm /\ [][NextPerm]_vars

----------------------------------------------------------------------------
(* add_features with the configuration of feature_engineering.main         *)
(*                                                                         *)
(* The shipped lists are lags [1, 2, 3, 6, 12, 18, 24, 48, 72, 168],       *)
(* rolling windows [3, 24, 168] and same-hour windows [3, 7]: the longest  *)
(* lag, the longest rolling window and the longest same-hour window all    *)
(* reach back one week.  Here the week is scaled to three days, which      *)
(* keeps that shape: the longest lag is 72, the rolling windows are        *)
(* [3, 24, 72] and the same-hour windows [2, 3].                           *)

\* the longest lookback of the configuration, in hours
Week == 3 * HoursPerDay

ShippedConfig ==
    [lags |-> <<1, 2, 3, 6, 12, 18, 24, 48, Week>>,
     rolling_windows |-> <<3, 24, Week>>,
     same_hour_windows |-> <<2, Week \div HoursPerDay>>,
     weather_cols |-> <<"precipitation">>, freq |-> 1]

\* how many hours a data range goes beyond one week
MaxExtra == 3

\* the data range of the ride file: the start of a season, the end of one,
\* or the last hour or the last day of one to the start of the next
ShippedRanges ==
    LET years == {Cutoff - 1, Cutoff, Cutoff + 1}
    IN  {<<SeasonStart(y), SeasonStart(y) + Week + k>> :
            y \in years, k \in 0..MaxExtra}
        \cup {<<SeasonEnd(y) - Week - k, SeasonEnd(y)>> :
                y \in years, k \in 0..MaxExtra}
        \cup UNION {{<<SeasonEnd(y) - j + 1, SeasonStart(y + 1) + Week + k>> :
                        y \in years, k \in 0..MaxExtra} :
                     j \in {1, HoursPerDay}}

\* the grid of one station on every range, of two stations on the ranges
\* that hold the first week of a season and one hour more
InitShipped ==
    /\ pc = "input"
    /\ InitWindIdle
    /\ InitMainIdle
    /\ cfg = ShippedConfig
    /\ \E range \in ShippedRanges :
          \E stations \in {{Station}, {Station, OtherStation}} :
              /\ Cardinality(stations) = 2 =>
                    /\ range[2] - range[1] = Week
                    /\ Month(range[1] - 1) < SeasonFirst
              /\ df = MainTable(range, stations)
    /\ out = <<>>

NextShipped == AddFeaturesCall

SpecShipped == InitShipped /\ [][NextShipped]_vars

----------------------------------------------------------------------------
(* add_features on the table of main: station metadata and every weather   *)
(* column                                                                  *)

ColsConfig ==
    [lags |-> <<1>>, rolling_windows |-> <<2>>, same_hour_windows |-> <<2>>,
     weather_cols |-> <<"precipitation", "precip_missing", "wind_speed",
                        "ws_missing">>,
     freq |-> 1]

\* the hourly table of aggregate_hourly_departures on the hours of index;
\* station 2 is in it as the ride file shows it: with a capacity on every
\* hour ("full"), without a capacity, or on the two latest hours only
HourlyTable(index, other) ==
    LET hours  == Ascending(index)
        latest == SubSeq(hours, Len(hours) - 1, Len(hours))
        rows(e, ts, capacity) ==
            [k \in DOMAIN ts |->
                [station_id         |-> e,
                 time               |-> ts[k],
                 departures         |-> Val((ts[k] + e) % 2),
                 departure_lat      |-> Val(60),
                 departure_lon      |-> Val(24 + e),
                 departure_capacity |-> capacity]]
    IN  rows(Station, hours, Val(10))
        \o rows(OtherStation,
                IF other = "short" THEN latest ELSE hours,
                IF other = "no_capacity" THEN Missing ELSE Val(30))

\* how many of the latest hours have a precipitation reading of any kind
Varied == 2

\* the raw weather files for the hours of index: a row for every hour, or
\* for every hour but one of the latest.  Precipitation is no rain and rain
\* in turn on the early hours and anything on the latest; wind speed is
\* missing on none or on all but a few of the first hours, or on one of the
\* latest.
RawWeatherTables(index) ==
    LET late    == {t \in index : Cardinality({u \in index : u > t}) < Varied}
        covered == {index} \cup {index \ {t} : t \in late}
        speed_at(i) == Val((2 + (i % 2)) * Unit)
        precipitation(n) ==
            {[i \in 1..n |-> IF i + Varied > n THEN latest[i + Varied - n]
                              ELSE Val(i % 2)] :
                latest \in [1..Varied -> {Missing, Val(0), Val(1)}]}
        speeds(n) ==
            {[i \in 1..n |-> IF i <= m THEN Missing ELSE speed_at(i)] :
                m \in {0} \cup (n - 2)..n}
            \cup {[i \in 1..n |-> IF i = m THEN Missing ELSE speed_at(i)] :
                    m \in (n - 1)..n}
    IN  UNION {LET hours == Ascending(c)
               IN  {[i \in DOMAIN hours |->
                       [time |-> hours[i], precipitation |-> precip[i],
                        wind_speed |-> speed[i]]] :
                      precip \in precipitation(Len(hours)),
                      speed \in speeds(Len(hours))} :
               c \in covered}

InitCols ==
    /\ pc = "input"
    /\ InitWindIdle
    /\ InitMainIdle
    /\ cfg = ColsConfig
    /\ \E index \in IsoIndexes, other \in {"full", "no_capacity", "short"} :
          \E rawtbl \in RawWeatherTables(index) :
              df = JoinWeather(HourlyTable(index, other),
                               CleanWeatherTable(rawtbl))
    /\ out = <<>>

NextCols == AddFeaturesCall

SpecCols == InitCols /\ [][NextCols]_vars

----------------------------------------------------------------------------
(* scripts/fetch_weather_data.py : fetch_fmi_data, main                    *)
(*                                                                         *)
(* Timestamps are minutes counted from the epoch of the calendar.  A       *)
(* request is the pair of its starttime and endtime; with timestep=60 it   *)
(* asks for the observations of the whole hours between the two, both      *)
(* included.                                                               *)

StepDays == 7

\* step = timedelta(days=7)
Step == StepDays * HoursPerDay * MinutesPerHour

\* day of the month of the last Sunday of month m of year y
LastSunday(y, m) ==
    CHOOSE d \in 1..DaysInMonth(y, m) :
        /\ d + 7 > DaysInMonth(y, m)
        /\ Weekday((DaysUntil(y, m) + d - 1) * HoursPerDay) = 6

\* pytz Europe/Helsinki, localize with is_dst=False: summer time holds from
\* 04:00 on the last Sunday of March until 03:00 on the last Sunday of
\* October; the hour that does not exist and the hour that occurs twice are
\* read as standard time
IsSummerTime(ts) ==
    LET y == Year(FloorHour(ts))
    IN  /\ ToDatetime(y, 3, LastSunday(y, 3), 4, 0) <= ts
        /\ ts < ToDatetime(y, 10, LastSunday(y, 10), 3, 0)

\* local_time.localize(t).astimezone(utc).replace(tzinfo=None)
ToUtc(ts) == ts - (IF IsSummerTime(ts) THEN 3 ELSE 2) * MinutesPerHour

\* fetch_fmi_data up to the loop: start, end, results = [], current = start
EnterFetch(start_time, end_time) ==
    [start   |-> ToUtc(start_time),
     end     |-> ToUtc(end_time),
     current |-> ToUtc(start_time),
     results |-> <<>>]

\* the years main is asked for
FetchYears == EpochYear..(Cutoff + 1)

\* the ranges fetch_fmi_data is called with directly: from a whole or a half
\* hour, in summer time or across its end, over less than an hour up to a
\* little more than two steps
DirectCalls ==
    LET starts == {ToDatetime(EpochYear, SeasonFirst, 1, 0, 0),
                   ToDatetime(EpochYear, SeasonFirst, 1, 0, 30),
                   ToDatetime(EpochYear, SeasonLast, 24, 0, 0)}
        spans  == {1, MinutesPerHour - 1, MinutesPerHour, 2 * MinutesPerHour}
                  \cup {k * Step + m : k \in 1..2,
                          m \in {0, MinutesPerHour - 1, MinutesPerHour,
                                  MinutesPerHour + 1, 2 * MinutesPerHour - 1,
                                  2 * MinutesPerHour, 2 * MinutesPerHour + 1}}
    IN  {[start_time |-> s0, end_time |-> s0 + d] :
            s0 \in starts, d \in spans}

InitFetch ==
    /\ raw = <<>>
    /\ wind_speed = <<>>
    /\ ws_missing = <<>>
    /\ df = <<>>
    /\ out = <<>>
    /\ InitMainIdle
    /\ \/ /\ caller = "main"
          /\ pc = "fetch_main"
          /\ \E first \in FetchYears, last \in FetchYears :
                /\ first <= last
                /\ cfg = [start_year |-> first, end_year |-> last]
                /\ fetch = [year |-> first]
       \/ /\ caller = "none"
          /\ pc = "fetch_call"
          /\ cfg \in DirectCalls
          /\ fetch = NoFetch

\* main, lines 97-99: the next year of the loop and its call
MainFetchYear ==
    /\ pc = "fetch_main"
    /\ fetch.year <= cfg.end_year
    /\ fetch' = [year |-> fetch.year]
                  @@ EnterFetch(ToDatetime(fetch.year, SeasonFirst, 1, 0, 0),
                                ToDatetime(fetch.year, SeasonLast, 31, 23, 59))
    /\ pc' = "fetch_loop"
    /\ UNCHANGED <<caller, raw, wind_speed, ws_missing, df, cfg, out, files,
                   split, inputs>>

\* main, line 97: the range of years is exhausted
MainFetchDone ==
    /\ pc = "fetch_main"
    /\ fetch.year > cfg.end_year
    /\ pc' = "fetch_done"
    /\ UNCHANGED <<caller, raw, wind_speed, ws_missing, df, cfg, out, files,
                   split, inputs, fetch>>

\* fetch_fmi_data called with a range of its caller's choice
FetchFmiDataCall ==
    /\ pc = "fetch_call"
    /\ fetch' = EnterFetch(cfg.start_time, cfg.end_time)
    /\ pc' = "fetch_loop"
    /\ UNCHANGED <<caller, raw, wind_speed, ws_missing, df, cfg, out, files,
                   split, inputs>>

\* one pass of the while loop, lines 55-78
Request ==
    /\ pc = "fetch_loop"
    /\ fetch.current < fetch.end
    /\ LET next_time == Min({fetch.current + Step, fetch.end})
       IN  fetch' = [fetch EXCEPT
                        !.results = Append(@, [starttime |-> fetch.current,
                                               endtime   |-> next_time]),
                        !.current = next_time + MinutesPerHour]
    /\ UNCHANGED <<pc, caller, raw, wind_speed, ws_missing, df, cfg, out,
                   files, split, inputs>>

\* the loop test fails: return pd.concat(results), line 79
Return ==
    /\ pc = "fetch_loop"
    /\ ~(fetch.current < fetch.end)
    /\ pc' = "fetch_returned"
    /\ UNCHANGED <<caller, raw, wind_speed, ws_missing, df, cfg, out, files,
                   split, inputs, fetch>>

\* main, line 100: the result joins all_years and the loop goes on
MainFetchNext ==
    /\ pc = "fetch_returned"
    /\ caller = "main"
    /\ fetch' = [year |-> fetch.year + 1]
    /\ pc' = "fetch_main"
    /\ UNCHANGED <<caller, raw, wind_speed, ws_missing, df, cfg, out, files,
                   split, inputs>>

NextFetch ==
    \/ MainFetchYear
    \/ MainFetchDone
    \/ FetchFmiDataCall
    \/ Request
    \/ Return
    \/ MainFetchNext

SpecFetch == InitFetch /\ [][NextFetch]_vars

\* the loop is a sequential program: a step that can be taken is taken
FairSpecFetch == SpecFetch /\ WF_vars(NextFetch)

----------------------------------------------------------------------------
(* Claims about the wind-speed gap handler                                 *)

\* raw[s..e] is a maximal run of missing values
IsRun(s, e) ==
    /\ s <= e
    /\ \A i \in s..e : IsNa(raw[i])
    /\ (s = 1 \/ ~IsNa(raw[s - 1]))
    /\ (e = Len(raw) \/ ~IsNa(raw[e + 1]))

Runs == {r \in (DOMAIN raw) \X (DOMAIN raw) : IsRun(r[1], r[2])}

RunLen(r) == r[2] - r[1] + 1

\* an observed value just before and just after the run
IsBounded(r) == r[1] > 1 /\ r[2] < Len(raw)

\* C6: every bounded run of 1..6 missing values ends on the straight line
\* between the observation a before it and the observation b after it: its
\* i-th position holds a + i*(b - a)/(L + 1).
C6_ShortGapsOnTheLine ==
    pc = "cleaned" =>
        \A r \in Runs :
            (IsBounded(r) /\ RunLen(r) <= MaxGap) =>
                LET a == Num(raw[r[1] - 1])
                    b == Num(raw[r[2] + 1])
                    L == RunLen(r)
                IN  \A i \in 1..L :
                        /\ wind_speed[r[1] + i - 1] # Sentinel
                        /\ Num(wind_speed[r[1] + i - 1]) * (L + 1)
                               = a * (L + 1) + i * (b - a)

\* C7: after clean_weather_data the flag is 1 at exactly the positions whose
\* wind_speed was missing in the raw input, filled or not.
C7_FlagMarksRawMissing ==
    (pc = "cleaned" /\ caller = "clean_weather_data") =>
        ws_missing = IsNaFlags(raw)

\* C8: after handle_wind_speed_gaps the flag is 1 exactly where wind_speed
\* is the sentinel -1, and 0 at every observed position and at every
\* position the short-gap step filled.
C8_FlagIffSentinel ==
    pc = "cleaned" =>
        /\ DOMAIN ws_missing = DOMAIN raw
        /\ \A i \in DOMAIN raw :
            /\ ws_missing[i] = 1 <=> wind_speed[i] = Sentinel
            /\ ws_missing[i] \in {0, 1}
            /\ ~IsNa(raw[i]) => ws_missing[i] = 0
            /\ (IsNa(raw[i]) /\ wind_speed[i] # Sentinel) => ws_missing[i] = 0

C8_Witness ==
    /\ pc = "cleaned"
    /\ \E i, j, k \in DOMAIN raw :
        /\ ws_missing[i] = 1
        /\ IsNa(raw[j]) /\ wind_speed[j] # Sentinel /\ ws_missing[j] = 0
        /\ ~IsNa(raw[k])

\* C9: every run of more than 6 missing values ends as the sentinel with the
\* flag set at each of its positions, and the boundary is exact: a run of
\* exactly 6 that follows an observation is filled.
C9_LongGapsSentinel ==
    pc = "cleaned" =>
        \A r \in Runs :
            /\ RunLen(r) > MaxGap =>
                \A i \in r[1]..r[2] :
                    wind_speed[i] = Sentinel /\ ws_missing[i] = 1
            /\ (RunLen(r) = MaxGap /\ r[1] > 1) =>
                \A i \in r[1]..r[2] :
                    wind_speed[i] # Sentinel /\ ws_missing[i] = 0

C9_Witness ==
    /\ pc = "cleaned"
    /\ \E r, q \in Runs :
        /\ RunLen(r) = MaxGap + 1 /\ r[1] > 1
        /\ q # r /\ RunLen(q) <= MaxGap
        /\ \A i \in r[1]..r[2] : wind_speed[i] = Sentinel /\ ws_missing[i] = 1

\* C10: a run at the very start or at the very end of the series is never
\* filled, whatever its length: each of its positions ends as the sentinel
\* with the flag set.
C10_EdgeRunsSentinel ==
    pc = "cleaned" =>
        \A r \in Runs :
            (r[1] = 1 \/ r[2] = Len(raw)) =>
                \A i \in r[1]..r[2] :
                    wind_speed[i] = Sentinel /\ ws_missing[i] = 1

\* C23: after handle_wind_speed_gaps no wind_speed value is missing, whatever
\* the input series, and wind_speed and ws_missing have the length and the
\* index of the input series.
C23_NoMissingWindSpeed ==
    pc = "cleaned" =>
        /\ DOMAIN wind_speed = DOMAIN raw
        /\ DOMAIN ws_missing = DOMAIN raw
        /\ \A i \in DOMAIN wind_speed : ~IsNa(wind_speed[i])

\* a series that starts missing and holds a short run, a run longer than
\* MaxGap and an observed value
C23_Witness ==
    /\ pc = "cleaned"
    /\ IsNa(raw[1])
    /\ \E r, q \in Runs :
          /\ RunLen(r) > MaxGap
          /\ r[1] > 1
          /\ RunLen(q) <= MaxGap
    /\ \A i \in DOMAIN wind_speed : ~IsNa(wind_speed[i])

----------------------------------------------------------------------------
(* Claims about add_features                                               *)

\* the input series of station e
Has(e, t) == \E i \in DOMAIN df : df[i].station_id = e /\ df[i].time = t

InputRow(e, t) ==
    df[CHOOSE i \in DOMAIN df : df[i].station_id = e /\ df[i].time = t]

Target(e, t) == InputRow(e, t).departures

Precip(e, t) == InputRow(e, t).precipitation

InOut(e, t) == \E n \in DOMAIN out : out[n].station_id = e /\ out[n].time = t

\* the engineered (non pass-through) values of an output row
EngineeredValues(r) ==
    <<r.lag, r.roll_mean, r.roll_std, r.same_hour_mean, r.same_hour_std>>

\* C1: the lag, rolling and same-hour values on an output row (e, t) depend
\* only on targets of e strictly before t: revising target(e, t') for one
\* t' >= t leaves the row in the output with all of them unchanged.  (Two
\* inputs that differ at several t' >= t are joined by such single
\* revisions.)
C1_NoLookahead ==
    [][(pc = "done" /\ pc' = "done") =>
          \A i \in DOMAIN df :
              df[i].departures # df'[i].departures =>
                  \A n \in DOMAIN out :
                      (out[n].station_id = df[i].station_id
                          /\ out[n].time <= df[i].time) =>
                          \E m \in DOMAIN out' :
                              /\ out'[m].station_id = out[n].station_id
                              /\ out'[m].time = out[n].time
                              /\ EngineeredValues(out'[m])
                                     = EngineeredValues(out[n])]_vars

\* an output row whose own target is 1 while every engineered value on it
\* was computed from zeros, with a later row of the same station in the input
C1_Witness ==
    /\ pc = "done"
    /\ \E n \in DOMAIN out :
          /\ out[n].station_id = Station
          /\ out[n].departures = Val(1)
          /\ \A k \in DOMAIN out[n].lag : out[n].lag[k] = Val(0)
          /\ \A w \in DOMAIN out[n].roll_mean : out[n].roll_mean[w] = Frac(0, 1)
          /\ \A d \in DOMAIN out[n].same_hour_mean :
                out[n].same_hour_mean[d] = Frac(0, 1)
          /\ \E i \in DOMAIN df :
                df[i].station_id = Station /\ df[i].time > out[n].time

\* the table _add_lags returns for station e
Lagged(e) == AddLags(GroupOf(df, e), "departures", cfg.freq, cfg.lags)

\* C2: for every station e, lag k and time t of e's series, the lag column
\* holds target(e, t - k) when t - k is in e's series and is missing
\* otherwise; the offset is in time, not in rows.
C2_LagByTime ==
    pc = "done" => \A e \in StationIds(df) :
        LET g == Lagged(e)
        IN  \A i \in DOMAIN g :
                \A k \in Range(cfg.lags) :
                    g[i].lag[k] =
                        IF Has(e, g[i].time - k * cfg.freq)
                        THEN Target(e, g[i].time - k * cfg.freq)
                        ELSE Missing

\* a series with a hole: a row that is not the first has no lag 1, though
\* rows precede it, and another row has one
C2_Witness ==
    /\ pc = "done"
    /\ LET g == Lagged(Station)
       IN  \E i, j \in DOMAIN g :
              /\ i > 1 /\ g[i].lag[1] = Missing
              /\ g[j].lag[1] = Val(1) /\ g[j - 1].departures = Val(1)
              /\ g[j].departures = Val(0)

\* the table _add_rolling_means returns for station e
Rolled(e) ==
    AddRollingMeans(GroupOf(df, e), "departures", cfg.freq, cfg.rolling_windows)

\* the targets of e at t - n, ..., t - 1 (all of them in the series)
Before(e, t, n) == [j \in 1..n |-> Target(e, t - n - 1 + j)]

\* C3: the rolling mean and std for window w on row (e, t) are non-missing
\* only if t - w, ..., t - 1 are all in e's series, and then they are the
\* mean and the sample standard deviation of the target at those w hours.
C3_RollingWindowInTime ==
    pc = "done" => \A e \in StationIds(df) :
        LET g == Rolled(e)
        IN  \A i \in DOMAIN g :
                \A w \in Range(cfg.rolling_windows) :
                    LET t    == g[i].time
                        full == \A n \in 1..w : Has(e, t - n * cfg.freq)
                    IN  /\ ~IsNa(g[i].roll_mean[w]) => full
                        /\ ~IsNa(g[i].roll_std[w]) => full
                        /\ full => /\ g[i].roll_mean[w] = Mean(Before(e, t, w))
                                   /\ g[i].roll_std[w] = Std(Before(e, t, w))

\* the targets of e at the same hour of the d days before t
SameHourBefore(e, t, d) == [j \in 1..d |-> Target(e, t - j * HoursPerDay)]

\* C4: on every output row (e, t), for every day-window d, same_hour_mean_d
\* is the mean of the d values target(e, t - 24), ..., target(e, t - 24*d)
\* and same_hour_std_d their sample standard deviation.
C4_SameHourOverAllDays ==
    pc = "done" =>
        \A n \in DOMAIN out :
            \A d \in Range(cfg.same_hour_windows) :
                LET e == out[n].station_id
                    t == out[n].time
                IN  /\ \A j \in 1..d : Has(e, t - j * HoursPerDay)
                    /\ out[n].same_hour_mean[d] = Mean(SameHourBefore(e, t, d))
                    /\ out[n].same_hour_std[d] = Std(SameHourBefore(e, t, d))

\* the table _shift_weather_cols returns for station e
Shifted(e) == ShiftWeatherCols(GroupOf(df, e), cfg.weather_cols, cfg.freq)

\* C5: the precipitation add_features exposes on row (e, t) is the raw
\* reading of e at t - 1 period, never the one at t; where t - 1 is not in
\* e's series the value is missing and the row is not in the output.
C5_WeatherShiftedOnePeriod ==
    pc = "done" =>
        /\ \A e \in StationIds(df) :
              LET g == Shifted(e)
              IN  \A i \in DOMAIN g :
                      g[i].precipitation =
                          IF Has(e, g[i].time - cfg.freq)
                          THEN Precip(e, g[i].time - cfg.freq)
                          ELSE Missing
        /\ \A n \in DOMAIN out :
              /\ Has(out[n].station_id, out[n].time - cfg.freq)
              /\ out[n].precipitation
                     = Precip(out[n].station_id, out[n].time - cfg.freq)
        /\ \A i \in DOMAIN df :
              ~Has(df[i].station_id, df[i].time - cfg.freq) =>
                  ~InOut(df[i].station_id, df[i].time)

\* an output row carrying the reading of the hour before, which differs
\* from its own hour's, and a later row of the series dropped for want of
\* the hour before
C5_Witness ==
    /\ pc = "done"
    /\ \E n \in DOMAIN out :
          /\ out[n].station_id = Station
          /\ out[n].precipitation = Precip(Station, out[n].time - cfg.freq)
          /\ out[n].precipitation # Precip(Station, out[n].time)
    /\ \E i, j \in DOMAIN df :
          /\ df[i].station_id = Station /\ df[j].station_id = Station
          /\ df[j].time < df[i].time
          /\ ~Has(Station, df[i].time - cfg.freq)
          /\ ~InOut(Station, df[i].time)

\* C12: every output row (e, t) has its complete lookback in e's series:
\* t - k for every lag k, t - 1 ... t - w for every rolling window w and
\* t - 24*i for i = 1..d of every same-hour window d; a row lacking any of
\* these hours is not in the output.
C12_CompleteLookback ==
    pc = "done" =>
        \A n \in DOMAIN out :
            LET e == out[n].station_id
                t == out[n].time
            IN  /\ \A k \in Range(cfg.lags) : Has(e, t - k * cfg.freq)
                /\ \A w \in Range(cfg.rolling_windows) :
                      \A j \in 1..w : Has(e, t - j * cfg.freq)
                /\ \A d \in Range(cfg.same_hour_windows) :
                      \A i \in 1..d : Has(e, t - i * HoursPerDay * cfg.freq)

\* the output rows of station e, in order
OutputOf(tbl, e) == SelectSeq(tbl, LAMBDA r : r.station_id = e)

\* C15: the rows of station 1 in the output, and every value on them, are
\* the same after a target of station 2 is revised or a row of station 2 is
\* added or removed.
C15_EntityIsolation ==
    [][(pc = "done" /\ pc' = "done") =>
          OutputOf(out', Station) = OutputOf(out, Station)]_vars

\* station 1 has output rows next to output rows of station 2, whose series
\* is no longer the one the run started with
C15_Witness ==
    /\ pc = "done"
    /\ OutputOf(out, Station) # <<>>
    /\ OutputOf(out, OtherStation) # <<>>
    /\ \E i \in DOMAIN df :
          df[i].station_id = OtherStation /\ df[i].departures # OtherTarget
    /\ \E t \in OtherTimes : ~Has(OtherStation, t)

\* the rows of a table station by station, each station's in ascending time
Chronological(tbl) ==
    LET Precedes(a, b) ==
            \/ a.station_id < b.station_id
            \/ a.station_id = b.station_id /\ a.time < b.time
        rank(i) == Cardinality({j \in DOMAIN tbl : Precedes(tbl[j], tbl[i])}) + 1
    IN  [p \in DOMAIN tbl |-> tbl[CHOOSE i \in DOMAIN tbl : rank(i) = p]]

\* C16: for any order of the input rows add_features returns the rows, the
\* values and the row order it returns for the chronologically sorted input.
C16_RowOrderInsensitive ==
    pc = "done" => out = AddFeatures(Chronological(df), cfg)

\* an input with the stations interleaved and a station's hours out of
\* order, and output rows of both stations
C16_Witness ==
    /\ pc = "done"
    /\ \E i, j, k \in DOMAIN df :
          /\ i < j /\ j < k
          /\ df[i].station_id = df[k].station_id
          /\ df[i].station_id # df[j].station_id
          /\ df[k].time < df[i].time
    /\ OutputOf(out, Station) # <<>>
    /\ OutputOf(out, OtherStation) # <<>>

\* C17: the output rows are in ascending (time, station_id) order, and no
\* two rows share the same (time, station_id).
C17_OutputSorted ==
    /\ \A n \in 1..(Len(out) - 1) :
          \/ out[n].time < out[n + 1].time
          \/ /\ out[n].time = out[n + 1].time
             /\ out[n].station_id < out[n + 1].station_id
    /\ \A m, n \in DOMAIN out :
          (out[m].time = out[n].time /\ out[m].station_id = out[n].station_id)
              => m = n

\* two stations on one hour, and a row of station 1 after a row of
\* station 2
C17_Witness ==
    /\ pc = "done"
    /\ \E n \in 1..(Len(out) - 1) :
          /\ out[n].time = out[n + 1].time
          /\ out[n].station_id < out[n + 1].station_id
    /\ \E m, n \in DOMAIN out :
          /\ m < n
          /\ out[m].station_id = OtherStation
          /\ out[n].station_id = Station

\* C18: a standard deviation over fewer than two values is missing: with 1
\* among the rolling windows or the same-hour windows the std column of that
\* window is missing on every row, add_features completes, and the output
\* has no rows.
C18_StdOfOneDropsRows ==
    pc = "done" =>
        LET eng == Engineered(df, cfg)
        IN  /\ \A i \in DOMAIN eng :
                  /\ 1 \in Range(cfg.rolling_windows) => IsNa(eng[i].roll_std[1])
                  /\ 1 \in Range(cfg.same_hour_windows)
                        => IsNa(eng[i].same_hour_std[1])
            /\ \A i \in DOMAIN eng :
                  (\/ \E w \in DOMAIN eng[i].roll_std : IsNa(eng[i].roll_std[w])
                   \/ \E d \in DOMAIN eng[i].same_hour_std :
                         IsNa(eng[i].same_hour_std[d]))
                      => ~InOut(eng[i].station_id, eng[i].time)
            /\ out = <<>>

\* a row of station 1 on which every engineered value but the std of
\* window 1 is there
C18_Witness ==
    /\ pc = "done"
    /\ \E i \in DOMAIN Engineered(df, cfg) :
          LET r == Engineered(df, cfg)[i]
          IN  /\ r.station_id = Station
              /\ \A k \in DOMAIN r.lag : ~IsNa(r.lag[k])
              /\ \A w \in DOMAIN r.roll_mean : ~IsNa(r.roll_mean[w])
              /\ \A d \in DOMAIN r.same_hour_mean : ~IsNa(r.same_hour_mean[d])
              /\ \A w \in DOMAIN r.roll_std : w # 1 => ~IsNa(r.roll_std[w])
              /\ \A d \in DOMAIN r.same_hour_std :
                    d # 1 => ~IsNa(r.same_hour_std[d])
              /\ ~IsNa(r.precipitation)

\* C24: on every output row rain is 1 exactly when the precipitation on that
\* row is > 0, which is the reading of the period before and not the row's
\* own; a reading replaced by the sentinel -1 gives rain = 0.
C24_RainFromShiftedReading ==
    pc = "done" =>
        \A n \in DOMAIN out :
            LET e    == out[n].station_id
                prev == Precip(e, out[n].time - cfg.freq)
            IN  /\ out[n].rain \in {0, 1}
                /\ out[n].rain = 1 <=> Num(out[n].precipitation) > 0
                /\ out[n].rain = 1 <=> Num(prev) > 0
                /\ prev = PrecipSentinel => out[n].rain = 0

\* an output row with rain = 1 whose own reading is not rain (so the flag is
\* the earlier reading's), and one with rain = 0 that carries the sentinel
C24_Witness ==
    /\ pc = "done"
    /\ \E n \in DOMAIN out :
          /\ out[n].rain = 1
          /\ Num(Precip(out[n].station_id, out[n].time)) <= 0
    /\ \E n \in DOMAIN out :
          /\ out[n].rain = 0
          /\ out[n].precipitation = PrecipSentinel

\* the first hour of the season hour t lies in
SeasonOf(t) == SeasonStart(Year(t))

\* the targets of station e on the hours t - k*step, k = 1..n, latest last
TargetsBack(e, t, n, step) ==
    [k \in 1..n |-> Target(e, t - (n + 1 - k) * step)]

\* C26: with the configuration of main, every output row (e, t) has all the
\* hours t - Week .. t - 1 in e's grid; so no output row lies within the
\* first week of a season or of the data range, and every rolling and
\* same-hour statistic on it is taken over targets of its own season only.
C26_WeekOfLookbackInSeason ==
    pc = "done" =>
        \A n \in DOMAIN out :
            LET e == out[n].station_id
                t == out[n].time
            IN  /\ \A h \in 1..Week : Has(e, t - h)
                /\ t - Week >= SeasonOf(t)
                /\ t - Week >= Min({df[i].time : i \in DOMAIN df})
                /\ \A w \in Range(cfg.rolling_windows) :
                      /\ t - w >= SeasonOf(t)
                      /\ out[n].roll_mean[w] = Mean(TargetsBack(e, t, w, 1))
                      /\ out[n].roll_std[w] = Std(TargetsBack(e, t, w, 1))
                /\ \A d \in Range(cfg.same_hour_windows) :
                      /\ t - d * HoursPerDay >= SeasonOf(t)
                      /\ out[n].same_hour_mean[d]
                            = Mean(TargetsBack(e, t, d, HoursPerDay))
                      /\ out[n].same_hour_std[d]
                            = Std(TargetsBack(e, t, d, HoursPerDay))

\* a grid that holds the end of one season and more than a week of the next:
\* rows of the second season come out, and a row in its first week, whose
\* last Week rows reach into the season before, does not
C26_Witness ==
    /\ pc = "done"
    /\ cfg = ShippedConfig
    /\ \E n \in DOMAIN out, i \in DOMAIN df :
          /\ df[i].station_id = out[n].station_id
          /\ Year(df[i].time) < Year(out[n].time)
          /\ \E j \in DOMAIN df :
                /\ j - i >= Week
                /\ df[j].station_id = df[i].station_id
                /\ df[j].time < SeasonOf(out[n].time) + Week
                /\ ~InOut(df[j].station_id, df[j].time)

\* the days i = 1..d whose same-hour timestamp t - 24*i is in e's series
DaysPresent(e, t, d) == {i \in 1..d : Has(e, t - i * HoursPerDay * cfg.freq)}

\* the targets of e on those days
SameHourTargets(e, t, d) ==
    LET days == Ascending(DaysPresent(e, t, d))
    IN  [k \in DOMAIN days |-> Target(e, t - days[k] * HoursPerDay * cfg.freq)]

\* what _same_hour_rolling_mean returns for the series of station e
SameHourOf(e) ==
    SameHourRollingMean(GroupOf(df, e), "departures", cfg.freq,
                        cfg.same_hour_windows)

\* C27: on every row (e, t) that _same_hour_rolling_mean returns and for
\* every day-window d, same_hour_mean_d is missing only when none of the
\* timestamps t - 24*i, i = 1..d, is in e's series and otherwise is the
\* mean of the target on those that are; same_hour_std_d is missing exactly
\* when fewer than two of them are.
C27_SameHourOverExistingDays ==
    pc = "done" =>
        \A e \in StationIds(df) :
            LET g == SameHourOf(e)
            IN  \A r \in DOMAIN g :
                    \A d \in Range(cfg.same_hour_windows) :
                        LET vals == SameHourTargets(e, g[r].time, d)
                        IN  /\ IsNa(g[r].same_hour_mean[d]) <=> Len(vals) = 0
                            /\ Len(vals) > 0 =>
                                  g[r].same_hour_mean[d]
                                      = Frac(Sum(vals), Len(vals))
                            /\ IsNa(g[r].same_hour_std[d]) <=> Len(vals) < 2

\* station 1 has, for the window of two days, a row with neither earlier
\* day, a row with one of them (a mean of one value, no std) and a row with
\* both, whose targets differ
C27_Witness ==
    /\ pc = "done"
    /\ 2 \in Range(cfg.same_hour_windows)
    /\ \E i, j, k \in DOMAIN df :
          /\ df[i].station_id = Station
          /\ df[j].station_id = Station
          /\ df[k].station_id = Station
          /\ DaysPresent(Station, df[i].time, 2) = {}
          /\ Cardinality(DaysPresent(Station, df[j].time, 2)) = 1
          /\ DaysPresent(Station, df[k].time, 2) = {1, 2}
          /\ Target(Station, df[k].time - HoursPerDay)
                # Target(Station, df[k].time - 2 * HoursPerDay)

\* the columns main hands through add_features
PassThrough == {"lat", "lon", "capacity"} \cup WeatherCols

\* the weather row one period before (e, t) is absent or lacks a reading
WeatherAbsentBefore(e, t) ==
    \/ ~Has(e, t - cfg.freq)
    \/ \E col \in Range(cfg.weather_cols) :
          IsNa(InputRow(e, t - cfg.freq)[col])

\* C28: no output row holds a missing value in any column; an input row with
\* a missing lat, lon or capacity, or without a weather value at t - 1, is
\* not in the output; a station whose capacity is missing on every row, or
\* whose series is shorter than the lookback, has no output row, and the
\* call completes.
C28_NoMissingValueReturned ==
    pc = "done" =>
        /\ \A n \in DOMAIN out :
              /\ PassThrough \cup {"departures"} \subseteq DOMAIN out[n]
              /\ \A col \in PassThrough \cup {"departures"} :
                    ~IsNa(out[n][col])
              /\ \A col \in NestedCols :
                    \A k \in DOMAIN out[n][col] : ~IsNa(out[n][col][k])
        /\ \A i \in DOMAIN df :
              (\/ \E col \in {"lat", "lon", "capacity"} : IsNa(df[i][col])
               \/ WeatherAbsentBefore(df[i].station_id, df[i].time))
                  => ~InOut(df[i].station_id, df[i].time)
        /\ \A e \in StationIds(df) :
              (\/ \A i \in DOMAIN df :
                     df[i].station_id = e => IsNa(df[i].capacity)
               \/ Len(GroupOf(df, e)) <= Max(Range(cfg.rolling_windows)))
                  => OutputOf(out, e) = <<>>

\* station 1 has an output row and a row that has its lookback but no
\* weather row one hour before; station 2 has no capacity and no output row
C28_Witness ==
    /\ pc = "done"
    /\ OutputOf(out, Station) # <<>>
    /\ \E i \in DOMAIN df :
          LET t == df[i].time
          IN  /\ df[i].station_id = Station
              /\ Has(Station, t - 1)
              /\ Has(Station, t - HoursPerDay)
              /\ Has(Station, t - 2 * HoursPerDay)
              /\ IsNa(Precip(Station, t - 1))
              /\ ~InOut(Station, t)
    /\ \A i \in DOMAIN df :
          df[i].station_id = OtherStation => IsNa(df[i].capacity)
    /\ Len(GroupOf(df, OtherStation)) > 2
    /\ OutputOf(out, OtherStation) = <<>>

\* C29: on every output row ws_missing = 1 exactly when wind_speed = -1 and
\* precip_missing = 1 exactly when precipitation = -1, flags and readings
\* both being those of the weather row one period earlier.
C29_FlagsAlignedWithValues ==
    pc = "done" =>
        \A n \in DOMAIN out :
            LET r    == out[n]
                prev == InputRow(r.station_id, r.time - cfg.freq)
            IN  /\ r.ws_missing \in {Val(0), Val(1)}
                /\ r.precip_missing \in {Val(0), Val(1)}
                /\ r.ws_missing = Val(1) <=> r.wind_speed = Sentinel
                /\ r.precip_missing = Val(1)
                      <=> r.precipitation = PrecipSentinel
                /\ \A col \in WeatherCols : r[col] = prev[col]

\* an output row that carries wind_speed = -1 with its flag and a
\* precipitation reading without, taken from the hour before, while the
\* weather of its own hour has a wind speed and no precipitation reading
C29_Witness ==
    /\ pc = "done"
    /\ \E n \in DOMAIN out :
          LET own == InputRow(out[n].station_id, out[n].time)
          IN  /\ out[n].ws_missing = Val(1)
              /\ out[n].wind_speed = Sentinel
              /\ out[n].precip_missing = Val(0)
              /\ own.ws_missing = Val(0)
              /\ own.precip_missing = Val(1)

----------------------------------------------------------------------------
(* Claims about aggregate_hourly_departures                                *)

\* the floored departure hours of the ride table
RideHours == {FloorHour(df[i].departure) : i \in DOMAIN df}

\* all hours from the earliest to the latest floored departure hour whose
\* month is April..October
Season ==
    {h \in Min(RideHours)..Max(RideHours) :
        Month(h) >= SeasonFirst /\ Month(h) <= SeasonLast}

\* the rows of the grid for station s and hour h
GridRows(s, h) ==
    {i \in DOMAIN out : out[i].station_id = s /\ out[i].time = h}

\* C11: the grid holds exactly |top stations| x |season hours| rows, and
\* every (station_id, hour) pair of top station and season hour exactly
\* once, also when a station id occurs with several distinct
\* (lat, lon, capacity) combinations.
C11_OneRowPerStationHour ==
    pc = "gridded" =>
        LET top == StationIds(out)
        IN  /\ Season # {} =>
                  Cardinality(top)
                      = Min({cfg.num_stations, Cardinality(DepartureIds(df))})
            /\ Len(out) = Cardinality(top) * Cardinality(Season)
            /\ \A s \in top : \A h \in Season : Cardinality(GridRows(s, h)) = 1
            /\ \A i \in DOMAIN out : out[i].time \in Season

\* C20: a stage leaves the table it is given as it was: no step of
\* aggregate_hourly_departures changes the columns or values of the
\* caller's ride table.
C20_InputTableUnchanged ==
    [][pc = "rides" => df' = df]_vars

\* C22: departures of (s, h) in the grid is the number of rides of station s
\* whose departure floors to h (0 when there is none), and within a season
\* the hours of each station are strictly increasing, one hour apart.
C22_CountsOnHourlyTimeline ==
    pc = "gridded" =>
        /\ \A i \in DOMAIN out :
              out[i].departures =
                  Val(Cardinality({k \in DOMAIN df :
                        /\ df[k].departure_id = out[i].station_id
                        /\ FloorHour(df[k].departure) = out[i].time}))
        /\ \A s \in StationIds(out) :
              LET g == GroupOf(out, s)
              IN  \A n \in 1..(Len(g) - 1) :
                      Year(g[n].time) = Year(g[n + 1].time)
                          => g[n + 1].time = g[n].time + 1

\* the first row of table tbl for station s and hour h
FirstRow(tbl, s, h) ==
    tbl[Min({i \in DOMAIN tbl : tbl[i].station_id = s /\ tbl[i].time = h})]

\* the first row of the weather file for hour h, missing values if none
FirstWeather(h) ==
    LET hit == {i \in DOMAIN cfg.weather_df : cfg.weather_df[i].time = h}
    IN  IF hit = {} THEN [col \in WeatherCols |-> Missing]
        ELSE [col \in WeatherCols |-> cfg.weather_df[Min(hit)][col]]

\* C30: the table main passes to add_features holds every (station, hour)
\* pair of the grid exactly once, and its row is the first row of that pair
\* after the joins: the first coordinate row of the station and the first
\* weather row of the hour.
C30_OneRowPerPairAfterJoins ==
    [][(pc = "gridded" /\ pc' = "joined") =>
          /\ \A s \in StationIds(out) : \A h \in Season :
                Cardinality({k \in DOMAIN out' :
                    out'[k].station_id = s /\ out'[k].time = h}) = 1
          /\ Len(out') = Cardinality(StationIds(out)) * Cardinality(Season)
          /\ \A k \in DOMAIN out' :
                LET grid    == FirstRow(out, out'[k].station_id, out'[k].time)
                    weather == FirstWeather(out'[k].time)
                IN  /\ out'[k].departures = grid.departures
                    /\ out'[k].lat = grid.departure_lat
                    /\ out'[k].lon = grid.departure_lon
                    /\ out'[k].capacity = grid.departure_capacity
                    /\ \A col \in WeatherCols : out'[k][col] = weather[col]]_vars

\* the joined table of a grid in which station 1 was recorded with two
\* capacities and of a weather file with two rows for one hour of the grid
C30_Witness ==
    /\ pc = "joined"
    /\ out # <<>>
    /\ \E i, j \in DOMAIN df :
          /\ df[i].departure_id = Station
          /\ df[j].departure_id = Station
          /\ df[i].departure_capacity # df[j].departure_capacity
    /\ \E k \in DOMAIN out :
          /\ out[k].station_id = Station
          /\ Cardinality({i \in DOMAIN cfg.weather_df :
                            cfg.weather_df[i].time = out[k].time}) = 2

----------------------------------------------------------------------------
(* Claims about feature_engineering.main                                   *)

\* the rows of an output file
Written(file) == Range(Num(file))

\* C13: the split covers the feature table: every feature row of a year
\* before the cutoff is written to the train file and every feature row of
\* a year at or after the cutoff to the test file.
C13_SplitCoversFeatures ==
    pc = "written" =>
        \A n \in DOMAIN out :
            /\ out[n].year < Cutoff => out[n] \in Written(files.train)
            /\ out[n].year >= Cutoff => out[n] \in Written(files.test)

\* C14: train and val share no feature row, every train row has a year
\* before the cutoff and no val row has, so every train row's timestamp (the
\* time add_features returned the row with) is before every val row's; the
\* files hold the rows of train and of val.
C14_SplitDisjointByYear ==
    pc \in {"split", "train_written", "written"} =>
        LET features == AddFeatures(df, cfg)
        IN  /\ \A a \in Range(split.train) : a.row.year < Cutoff
            /\ \A b \in Range(split.val) : ~(b.row.year < Cutoff)
            /\ \A a \in Range(split.train) : \A b \in Range(split.val) :
                  /\ a.index # b.index
                  /\ features[a.index + 1].time < features[b.index + 1].time
            /\ pc = "written" =>
                  /\ \A r \in Written(files.train) : r.year < Cutoff
                  /\ \A r \in Written(files.test) : ~(r.year < Cutoff)
                  /\ Num(files.train)
                        = [k \in DOMAIN split.train |-> split.train[k].row]
                  /\ Num(files.test)
                        = [k \in DOMAIN split.val |-> split.val[k].row]

\* both files written, each with rows, of a table that spans the cutoff
C14_Witness ==
    /\ pc = "written"
    /\ split.train # <<>>
    /\ split.val # <<>>
    /\ Num(files.train) # <<>>
    /\ Num(files.test) # <<>>


\* an input file cannot be loaded, or the table lacks the time index, the
\* target column or a weather column
InputError ==
    \/ inputs.bike = "unreadable"
    \/ inputs.weather = "unreadable"
    \/ \E i \in DOMAIN inputs.table :
          \E col \in {"time", "departures", "precipitation"} :
              col \notin DOMAIN inputs.table[i]

\* C19: on an input error no step of the run creates or modifies the train
\* file or the test file, and the run never stands between the two writes.
C19_NoPartialOutput ==
    [][InputError => (files' = files /\ pc' # "train_written")]_vars

\* add_features has raised on a table that lacks a column, both files of
\* the earlier run as they were
C19_Witness ==
    /\ pc = "raised"
    /\ InputError
    /\ files = OldFiles

\* the rows of the two output files
WrittenRows == Written(files.train) \cup Written(files.test)

\* C21: every row written to the train or the test file carries the station
\* id, the row's timestamp and the target, and no two rows of a file have
\* the same (station_id, time).
C21_WrittenRowsCarryKey ==
    pc = "written" =>
        /\ \A r \in WrittenRows :
              {"station_id", "time", "departures"} \subseteq DOMAIN r
        /\ \A file \in {files.train, files.test} :
              \A k, l \in DOMAIN Num(file) :
                  (/\ Num(file)[k].station_id = Num(file)[l].station_id
                   /\ Num(file)[k].time = Num(file)[l].time) => k = l

----------------------------------------------------------------------------
(* Claims about fetch_fmi_data                                             *)

\* the whole hours from start to end
WholeHours ==
    {h * MinutesPerHour :
        h \in ((fetch.start + MinutesPerHour - 1) \div MinutesPerHour)
                ..(fetch.end \div MinutesPerHour)}

\* the requests a timestamp falls into
RequestsOf(ts) ==
    {k \in DOMAIN fetch.results :
        fetch.results[k].starttime <= ts /\ ts <= fetch.results[k].endtime}

\* every call of fetch_fmi_data returns
C25_Terminates == (pc = "fetch_loop") ~> (pc = "fetch_returned")

\* every request spans at most seven days
C25_RequestSpan ==
    pc \in {"fetch_loop", "fetch_returned"} =>
        \A k \in DOMAIN fetch.results :
            /\ fetch.results[k].starttime <= fetch.results[k].endtime
            /\ fetch.results[k].endtime - fetch.results[k].starttime <= Step

\* C25: when fetch_fmi_data returns, every whole-hour timestamp from start
\* to end lies in exactly one of its requests: none in two, none between
\* two requests, none after the last.
C25_EveryHourRequestedOnce ==
    pc = "fetch_returned" =>
        \A ts \in WholeHours : Cardinality(RequestsOf(ts)) = 1

============================================================================
